---- MODULE Spec2Model ----
(***************************************************************************)
(* easy-filebeat: the rotation-aware line reader (LineReader over a        *)
(* bufio.Scanner), the file-identity probe (sys.go) and the harvester      *)
(* state machine (scanner goroutines, reader loop, switchNextFile).        *)
(*                                                                         *)
(* The file system is part of the state: a directory maps names to         *)
(* inodes, every inode has a byte content, and modOrder lists the inodes   *)
(* most recently modified first (modification times are distinct).         *)
(* A byte is a one-character string; a record is a sequence of bytes.      *)
(***************************************************************************)
EXTENDS Integers, Sequences, FiniteSets, TLC

\* ------------------------------------------------------------- bounds
\* Inodes the file system ever allocates (inode numbers are not reused).
MaxInodes == 2
\* Longest file content, in bytes; far below bufio's buffer (4096 bytes,
\* growing to 64 KiB), so one Read returns every byte that is available.
MaxFileLen == 2

\* ---------------------------------------------------------- constants
delimLabel == "\n"
CR == "\r"
\* The device all files of the watched directory live on (stat.Dev).
Device == 1

\* The watched path and the name a rotation moves it to; the regex
\* filepath.Base(cfg.Path) = "a.log" is unanchored and matches both.
LogName == "a.log"
RotatedName == "a.log.1"
Names == {LogName, RotatedName}
\* ioutil.ReadDir returns the entries sorted by file name.
NamesInDirOrder == <<LogName, RotatedName>>

\* The line the log writer appends, byte by byte, while the harvester runs,
\* and the bytes a file under the stand-alone reader may hold.
LogLine == <<"a", delimLabel>>
ReaderBytes == {"a", CR, delimLabel}

Inodes == 1..MaxInodes

VARIABLES
    dir,            \* directory: name -> inode, 0 when the name is absent
    content,        \* inode -> bytes
    modOrder,       \* allocated inodes, latest modification first
    meta,           \* harvester.meta (Metadata); CurOffset is *readOffset
    metaFile,       \* the document at cfg.MetaPath
    curReader,      \* harvester.curReader (or the reader under test)
    waitDealFiles,  \* harvester.waitDealFiles
    scanPc,         \* position of each setWaitDealFiles activity
    scanResult,     \* its local `result`
    hvPc,           \* position of the reader goroutine
    waitDeal,       \* initReaderFromWait's local `waitDeal`
    msg,            \* innerRun's local `msg`
    err,            \* innerRun's local `err`
    delivered,      \* history: records the sink got from the current reader
    retired,        \* history: identities switchNextFile has left
    openedAt,       \* history: the offset the current reader was built with
    ctxDone         \* Run's ctx has been cancelled

vars == <<dir, content, modOrder, meta, metaFile, curReader, waitDealFiles,
          scanPc, scanResult, hvPc, waitDeal, msg, err, delivered, retired,
          openedAt, ctxDone>>

fsVars == <<dir, content, modOrder>>
scanVars == <<scanPc, scanResult>>
histVars == <<delivered, retired, openedAt>>

\* ------------------------------------------------------- file system
Allocated == {modOrder[k] : k \in 1..Len(modOrder)}
Nlink(i) == Cardinality({n \in Names : dir[n] = i})
Touch(i) == <<i>> \o SelectSeq(modOrder, LAMBDA j : j # i)
\* The byte the log writer appends to a file of the given content.
NextLogByte(c) == LogLine[(Len(c) % Len(LogLine)) + 1]

\* ---------------------------------------------------- sys.go: identity
GetOSState(info) == [Inode |-> info.ino, Device |-> info.dev]

isSame(fs, state) == fs.Inode = state.Inode /\ fs.Device = state.Device

String(fs) == ToString(fs.Inode) \o "-" \o ToString(fs.Device)

\* A handle is the inode it was opened on; fstat of an open handle succeeds.
Stat(i) == [ino |-> i, dev |-> Device, nlink |-> Nlink(i)]

isRemoved(f) == Stat(f).nlink = 0

isSameFile(a, b) == isSame(GetOSState(Stat(a)), GetOSState(Stat(b)))

\* readOpen(path): the inode the path names, 0 for os.ErrNotExist.
readOpen(path) == dir[path]

\* ------------------------------------------------ bufio.Scanner / lines
IndexByte(data, c) ==
    IF \E k \in 1..Len(data) : data[k] = c
    THEN CHOOSE k \in 1..Len(data) : data[k] = c /\ \A j \in 1..(k-1) : data[j] # c
    ELSE 0

dropCR(data) ==
    IF Len(data) > 0 /\ data[Len(data)] = CR
    THEN SubSeq(data, 1, Len(data) - 1)
    ELSE data

\* bufio.ScanLines(data, atEOF) -> (advance, token); found is token # nil.
ScanLines(data, atEOF) ==
    LET i == IndexByte(data, delimLabel) IN
    IF atEOF /\ Len(data) = 0
    THEN [advance |-> 0, token |-> <<>>, found |-> FALSE]
    ELSE IF i > 0
    THEN [advance |-> i, token |-> dropCR(SubSeq(data, 1, i - 1)), found |-> TRUE]
    ELSE IF atEOF
    THEN [advance |-> Len(data), token |-> dropCR(data), found |-> TRUE]
    ELSE [advance |-> 0, token |-> <<>>, found |-> FALSE]

\* The bytes of the held file the scanner has not consumed yet.
Unread(r) == SubSeq(content[r.ino], r.pos + 1, Len(content[r.ino]))

\* Scanner.Scan: once a Read has returned io.EOF the scanner is done for
\* good (s.err is sticky), it reads no further byte.  Otherwise it reads
\* until a line is complete; when the Read reports io.EOF first, the split
\* function is given the rest of the buffer with atEOF set.
Scan(r) ==
    IF r.eof
    THEN [ok |-> FALSE, token |-> <<>>, r |-> r]
    ELSE LET more == ScanLines(Unread(r), FALSE)
             last == ScanLines(Unread(r), TRUE) IN
         IF more.found
         THEN [ok |-> TRUE, token |-> more.token,
               r |-> [r EXCEPT !.pos = @ + more.advance]]
         ELSE IF last.found
         THEN [ok |-> TRUE, token |-> last.token,
               r |-> [r EXCEPT !.pos = @ + last.advance, !.eof = TRUE]]
         ELSE [ok |-> FALSE, token |-> <<>>, r |-> [r EXCEPT !.eof = TRUE]]

\* strings.Split(msg, "\n")[0]
SplitFirst(m) ==
    LET i == IndexByte(m, delimLabel) IN
    IF i = 0 THEN m ELSE SubSeq(m, 1, i - 1)

\* ------------------------------------------------------- LineReader
\* fdOpen: line.curFile is open.  probeOpen: a handle that Next opened on
\* originName at EOF is still open.
NilReader == [originName |-> "", ino |-> 0, pos |-> 0, eof |-> FALSE,
              closed |-> FALSE, fdOpen |-> FALSE, probeOpen |-> FALSE]

IsNil(r) == r.originName = ""

\* NewLineReader(name, offset): seeks to offset when it is 0, else offset+1.
NewLineReader(name, offset) ==
    LET f == readOpen(name) IN
    IF f = 0
    THEN [err |-> "ErrNotExist", r |-> NilReader]
    ELSE [err |-> "nil",
          r |-> [originName |-> name, ino |-> f,
                 pos |-> IF offset = 0 THEN offset ELSE offset + 1,
                 eof |-> FALSE, closed |-> FALSE, fdOpen |-> TRUE,
                 probeOpen |-> FALSE]]

\* Close as it would be without the store to `closed`.
CloseKeepsFlag(r) == [r EXCEPT !.fdOpen = FALSE]

\* LineReader.Close: sets closed, drops the scanner, closes the handle.
Close(r) == [r EXCEPT !.closed = TRUE, !.fdOpen = FALSE]

\* AtEOF as it would be without the isRemoved test.
AtEOFSkipsRemoved(r) ==
    LET f == readOpen(r.originName) IN
    IF f = 0 THEN "ErrorRemoved"
    ELSE IF ~isSameFile(r.ino, f) THEN "ErrorRename"
    ELSE "EOF"

\* What Next answers when Scan has returned false.
AtEOF(r) ==
    LET f == readOpen(r.originName) IN
    IF f = 0 THEN "ErrorRemoved"
    ELSE IF isRemoved(r.ino) THEN "ErrorRemoved"
    ELSE IF ~isSameFile(r.ino, f) THEN "ErrorRename"
    ELSE "EOF"

\* The reader after the EOF branch of Next: the handle f of
\* readOpen(originName), when the open succeeds, is not closed on any path.
AfterProbe(r) ==
    [r EXCEPT !.probeOpen = @ \/ readOpen(r.originName) # 0]

\* LineReader.Next: (msg, err), the reader afterwards, and the advance of
\* *readOffset, which is len(msg) of the scanner's Text().
LineNext(r) ==
    LET s == Scan(r) IN
    IF r.closed
    THEN [msg |-> <<>>, err |-> "ErrorClosed", r |-> r, add |-> 0]
    ELSE IF s.ok
    THEN [msg |-> SplitFirst(s.token), err |-> "nil", r |-> s.r,
          add |-> Len(s.token)]
    ELSE [msg |-> <<>>, err |-> AtEOF(r), r |-> AfterProbe(s.r), add |-> 0]

\* --------------------------------------------------------- Metadata
EmptyMeta == [CurFile |-> "", CurFileINode |-> "", CurOffset |-> 0,
              PreFileINode |-> ""]

\* json.Marshal(beater.meta) as written to cfg.MetaPath; os.Create leaves
\* an empty document.
EmptyDoc == [state |-> "empty", doc |-> EmptyMeta]
Marshal(m) == [state |-> "json", doc |-> m]

\* ------------------------------------------------ file-set scanner
Scanners == {"once", "refresh"}

\* An os.FileInfo as ReadDir returns it.
FileInfo(n) == [name |-> n, ino |-> dir[n], dev |-> Device]

\* The zero value of a FileInfo local.
NoFile == [name |-> "", ino |-> 0, dev |-> 0]

\* regexp.Compile(filepath.Base(cfg.Path)).Match(name)
Matches(n) == n \in {LogName, RotatedName}

\* loadCurFiles: the directory's entries, in name order, the regex matches.
loadCurFiles ==
    LET present == SelectSeq(NamesInDirOrder, LAMBDA n : dir[n] # 0 /\ Matches(n))
    IN  [k \in 1..Len(present) |-> FileInfo(present[k])]

\* sort.Slice by ModTime, latest first.
SortByModTime(source) ==
    LET inos == {source[k].ino : k \in 1..Len(source)}
        order == SelectSeq(modOrder, LAMBDA i : i \in inos)
    IN  [k \in 1..Len(order) |->
            source[CHOOSE j \in 1..Len(source) : source[j].ino = order[k]]]

\* The index of the first entry with the given identity string, 0 if none.
IndexOfINode(files, inode) ==
    IF \E k \in 1..Len(files) : String(GetOSState(files[k])) = inode
    THEN CHOOSE k \in 1..Len(files) :
            /\ String(GetOSState(files[k])) = inode
            /\ \A j \in 1..(k-1) : String(GetOSState(files[j])) # inode
    ELSE 0

\* ignoreAlreadDeal as it would be with the cut one entry too late.
ignoreAlreadDealKeepsCur(source) ==
    LET sorted == SortByModTime(source)
        pos == IndexOfINode(sorted, meta.CurFileINode)
    IN  IF pos = 0 THEN sorted ELSE SubSeq(sorted, 1, pos)

\* ignoreAlreadDeal: sort, then cut before the entry of meta.CurFileINode.
ignoreAlreadDeal(source) ==
    LET sorted == SortByModTime(source)
        pos == IndexOfINode(sorted, meta.CurFileINode)
    IN  IF pos = 0 THEN sorted ELSE SubSeq(sorted, 1, pos - 1)

\* The slice without its element at pos (append(s[:pos], s[pos+1:]...)).
RemoveAt(files, pos) ==
    SubSeq(files, 1, pos - 1) \o SubSeq(files, pos + 1, Len(files))

\* A Go panic ends the process.
Running == hvPc \notin {"panic_index", "panic_nil", "panic_deref"}

\* ------------------------------------------------- initial state
\* NewHarvester on a first start: no document at cfg.MetaPath, Init creates
\* it empty and no reader exists; no file matches yet.
Init ==
    /\ dir = [n \in Names |-> 0]
    /\ content = [i \in Inodes |-> <<>>]
    /\ modOrder = <<>>
    /\ meta = EmptyMeta
    /\ metaFile = EmptyDoc
    /\ curReader = NilReader
    /\ waitDealFiles = <<>>
    /\ scanPc = [s \in Scanners |-> "scan"]
    /\ scanResult = [s \in Scanners |-> <<>>]
    /\ hvPc = "run"
    /\ waitDeal = NoFile
    /\ msg = <<>>
    /\ err = "nil"
    /\ delivered = <<>>
    /\ retired = {}
    /\ openedAt = 0
    /\ ctxDone = FALSE

\* ---------------------------------------- the log writer and logrotate
\* A new, empty file appears under the watched path.
CreateLog ==
    /\ Running
    /\ dir[LogName] = 0
    /\ Len(modOrder) < MaxInodes
    /\ LET i == Len(modOrder) + 1 IN
       /\ dir' = [dir EXCEPT ![LogName] = i]
       /\ modOrder' = <<i>> \o modOrder
    /\ UNCHANGED <<ctxDone, content, meta, metaFile, curReader, waitDealFiles, scanVars,
                   hvPc, waitDeal, msg, err, histVars>>

\* One byte is appended to the file a name refers to.
Write(n, b) ==
    /\ Running
    /\ dir[n] # 0
    /\ Len(content[dir[n]]) < MaxFileLen
    /\ content' = [content EXCEPT ![dir[n]] = Append(@, b)]
    /\ modOrder' = Touch(dir[n])
    /\ UNCHANGED <<ctxDone, dir, meta, metaFile, curReader, waitDealFiles, scanVars,
                   hvPc, waitDeal, msg, err, histVars>>

\* The log writer appends the next byte of its line to the watched path.
AppendLog ==
    /\ dir[LogName] # 0
    /\ Write(LogName, NextLogByte(content[dir[LogName]]))

\* rename(a.log, a.log.1): whatever a.log.1 named before loses its link.
Rename ==
    /\ Running
    /\ dir[LogName] # 0
    /\ dir' = [dir EXCEPT ![RotatedName] = dir[LogName], ![LogName] = 0]
    /\ UNCHANGED <<ctxDone, content, modOrder, meta, metaFile, curReader, waitDealFiles,
                   scanVars, hvPc, waitDeal, msg, err, histVars>>

\* unlink(n)
Remove(n) ==
    /\ Running
    /\ dir[n] # 0
    /\ dir' = [dir EXCEPT ![n] = 0]
    /\ UNCHANGED <<ctxDone, content, modOrder, meta, metaFile, curReader, waitDealFiles,
                   scanVars, hvPc, waitDeal, msg, err, histVars>>

\* --------------------------------------------- setWaitDealFiles
\* Run starts two activities that execute setWaitDealFiles: one call of its
\* own goroutine ("once") and the loop of refreshWaitDealFileList
\* ("refresh").  Each scans until the filtered list is not empty (an empty
\* one sleeps 200 ms and scans again), stores it under the lock and then
\* broadcasts.  The scan reads meta.CurFileINode without the lock.
ScanDir(s) ==
    /\ Running
    /\ scanPc[s] = "scan"
    /\ LET result == ignoreAlreadDeal(loadCurFiles) IN
       /\ Len(result) # 0
       /\ scanResult' = [scanResult EXCEPT ![s] = result]
       /\ scanPc' = [scanPc EXCEPT ![s] = "store"]
    /\ UNCHANGED <<ctxDone, fsVars, meta, metaFile, curReader, waitDealFiles, hvPc,
                   waitDeal, msg, err, histVars>>

StoreWaitDealFiles(s) ==
    /\ Running
    /\ scanPc[s] = "store"
    /\ waitDealFiles' = scanResult[s]
    /\ scanPc' = [scanPc EXCEPT ![s] = "broadcast"]
    /\ scanResult' = [scanResult EXCEPT ![s] = <<>>]
    /\ UNCHANGED <<ctxDone, fsVars, meta, metaFile, curReader, hvPc,
                   waitDeal, msg, err, histVars>>

\* Broadcast as it would be if it reached no waiter.
BroadcastLost(s) ==
    /\ Running
    /\ scanPc[s] = "broadcast"
    /\ scanPc' = [scanPc EXCEPT ![s] = IF s = "once" THEN "done" ELSE "scan"]
    /\ UNCHANGED <<ctxDone, fsVars, meta, metaFile, curReader, waitDealFiles,
                   scanResult, hvPc, waitDeal, msg, err, histVars>>

\* haveFileCond.Broadcast(): wakes the reader goroutine if it waits.
Broadcast(s) ==
    /\ Running
    /\ scanPc[s] = "broadcast"
    /\ hvPc' = IF hvPc = "irw_wait" THEN "irw_woken" ELSE hvPc
    /\ scanPc' = [scanPc EXCEPT ![s] = IF s = "once" THEN "done" ELSE "scan"]
    /\ UNCHANGED <<ctxDone, fsVars, meta, metaFile, curReader, waitDealFiles,
                   scanResult, waitDeal, msg, err, histVars>>

\* --------------------------------------------- the reader goroutine
\* Run's third goroutine: no reader after Init -> initReaderFromWait.
RunReader ==
    /\ hvPc = "run"
    /\ hvPc' = IF IsNil(curReader) THEN "irw_lock" ELSE "tick"
    /\ UNCHANGED <<ctxDone, fsVars, meta, metaFile, curReader, waitDealFiles, scanVars,
                   waitDeal, msg, err, histVars>>

\* initReaderFromWait from the last element on: waitDeal, the update of
\* meta, Unlock.  An empty list is an index out of range.
TakeLast ==
    IF Len(waitDealFiles) = 0
    THEN /\ hvPc' = "panic_index"
         /\ UNCHANGED <<meta, waitDeal>>
    ELSE LET w == waitDealFiles[Len(waitDealFiles)] IN
         /\ waitDeal' = w
         /\ meta' = [meta EXCEPT !.CurFile = w.name, !.CurOffset = 0,
                                 !.CurFileINode = String(GetOSState(w))]
         /\ hvPc' = "irw_open"

\* initReaderFromWait: Lock; an empty list waits on haveFileCond (once).
LockWaitDealFiles ==
    /\ hvPc = "irw_lock"
    /\ IF Len(waitDealFiles) = 0
       THEN /\ hvPc' = "irw_wait"
            /\ UNCHANGED <<meta, waitDeal>>
       ELSE TakeLast
    /\ UNCHANGED <<ctxDone, fsVars, metaFile, curReader, waitDealFiles, scanVars, msg,
                   err, delivered, retired, openedAt>>

\* haveFileCond.Wait() has returned.
Woken ==
    /\ hvPc = "irw_woken"
    /\ TakeLast
    /\ UNCHANGED <<ctxDone, fsVars, metaFile, curReader, waitDealFiles, scanVars, msg,
                   err, delivered, retired, openedAt>>

\* initReaderFromWait: NewLineReader(waitDeal.Name(), &meta.CurOffset), then
\* the old reader is closed and the new one stored.  On an error Run's
\* goroutine reports it and returns; innerRun drops switchNextFile's error.
\* After the call in Run comes the ticker loop, after the call in
\* switchNextFile innerRun's loop goes on.
OpenWaitDeal ==
    /\ hvPc = "irw_open"
    /\ LET made == NewLineReader(waitDeal.name, meta.CurOffset) IN
       IF made.err # "nil"
       THEN /\ hvPc' = IF IsNil(curReader) THEN "stopped" ELSE "next"
            /\ UNCHANGED <<curReader, openedAt, delivered>>
       ELSE /\ curReader' = made.r
            /\ openedAt' = meta.CurOffset
            /\ delivered' = <<>>
            /\ hvPc' = IF IsNil(curReader) THEN "tick" ELSE "next"
    /\ waitDeal' = NoFile
    /\ UNCHANGED <<ctxDone, fsVars, meta, metaFile, waitDealFiles, scanVars, msg, err,
                   retired>>

\* innerRun: curReader.Next() and the switch on its error.  io.EOF and the
\* default branch return to the ticker loop of Run.
InnerRunNext ==
    /\ hvPc = "next"
    /\ LET got == LineNext(curReader) IN
       /\ curReader' = got.r
       /\ meta' = [meta EXCEPT !.CurOffset = @ + got.add]
       /\ msg' = got.msg
       /\ err' = got.err
       /\ hvPc' = CASE got.err = "nil" -> "fanout"
                    [] got.err \in {"ErrorRemoved", "ErrorRename"} -> "switch"
                    [] OTHER -> "tick"
    /\ UNCHANGED <<ctxDone, fsVars, metaFile, waitDealFiles, scanVars, waitDeal,
                   histVars>>

\* FanOut as it would be if the loop over the sinks ran over no sink.
FanOutSkips ==
    /\ hvPc = "fanout"
    /\ msg' = <<>>
    /\ hvPc' = "sync"
    /\ UNCHANGED <<ctxDone, fsVars, meta, metaFile, curReader, waitDealFiles,
                   scanVars, waitDeal, err, histVars>>

\* innerRun: under sLock.RLock the sinks get msg one after the other, in
\* the order of beater.sinks (the order of the RegisterSink calls).
FanOut ==
    /\ hvPc = "fanout"
    /\ delivered' = Append(delivered, msg)
    /\ msg' = <<>>
    /\ hvPc' = "sync"
    /\ UNCHANGED <<ctxDone, fsVars, meta, metaFile, curReader, waitDealFiles, scanVars,
                   waitDeal, err, retired, openedAt>>

\* reportAndSyncMetadata
reportAndSyncMetadata ==
    /\ hvPc = "sync"
    /\ metaFile' = Marshal(meta)
    /\ hvPc' = "next"
    /\ UNCHANGED <<ctxDone, fsVars, meta, curReader, waitDealFiles, scanVars, waitDeal,
                   msg, err, histVars>>

\* switchNextFile up to its call of initReaderFromWait: the old reader is
\* closed and the entry of meta.CurFileINode leaves the list.
switchNextFile ==
    /\ hvPc = "switch"
    /\ curReader' = Close(curReader)
    /\ LET pos == IndexOfINode(waitDealFiles, meta.CurFileINode) IN
       waitDealFiles' = IF pos # 0 THEN RemoveAt(waitDealFiles, pos)
                        ELSE waitDealFiles
    /\ retired' = retired \cup {meta.CurFileINode}
    /\ err' = "nil"
    /\ hvPc' = "irw_lock"
    /\ UNCHANGED <<ctxDone, fsVars, meta, metaFile, scanVars, waitDeal, msg,
                   delivered, openedAt>>

\* Run's reader goroutine, select: the ticker fires and innerRun is called.
Tick ==
    /\ hvPc = "tick"
    /\ hvPc' = "next"
    /\ UNCHANGED <<ctxDone, fsVars, meta, metaFile, curReader, waitDealFiles,
                   scanVars, waitDeal, msg, err, histVars>>

\* Run's reader goroutine, select: ctx.Done() is ready, the goroutine returns.
ReaderCtxDone ==
    /\ hvPc = "tick"
    /\ ctxDone
    /\ hvPc' = "stopped"
    /\ UNCHANGED <<ctxDone, fsVars, meta, metaFile, curReader, waitDealFiles,
                   scanVars, waitDeal, msg, err, histVars>>

\* The embedder cancels the context it gave to Run.  Neither
\* setWaitDealFiles nor refreshWaitDealFileList nor haveFileCond.Wait looks
\* at it; the select of the refresher goroutine comes after a call of
\* refreshWaitDealFileList, which does not return.
Cancel ==
    /\ Running
    /\ ~ctxDone
    /\ ctxDone' = TRUE
    /\ UNCHANGED <<fsVars, meta, metaFile, curReader, waitDealFiles, scanVars,
                   hvPc, waitDeal, msg, err, histVars>>

\* harvester.Close(), called by the embedder at any moment:
\* curReader.Load().(Reader) panics while no reader is stored.
HarvesterClose ==
    /\ Running
    /\ IF IsNil(curReader)
       THEN /\ hvPc' = "panic_nil"
            /\ UNCHANGED curReader
       ELSE /\ curReader' = Close(curReader)
            /\ UNCHANGED hvPc
    /\ UNCHANGED <<ctxDone, fsVars, meta, metaFile, waitDealFiles, scanVars, waitDeal,
                   msg, err, histVars>>

\* harvester.Close() while Next of the same reader is between its load of
\* `closed` and line.reader.Scan(): Close has set line.reader to nil and
\* Next dereferences it.
CloseDuringNext ==
    /\ Running
    /\ hvPc = "next"
    /\ ~IsNil(curReader)
    /\ ~curReader.closed
    /\ curReader' = Close(curReader)
    /\ hvPc' = "panic_deref"
    /\ UNCHANGED <<ctxDone, fsVars, meta, metaFile, waitDealFiles, scanVars,
                   waitDeal, msg, err, histVars>>

Next ==
    \/ CreateLog
    \/ AppendLog
    \/ Rename
    \/ Remove(LogName)
    \/ \E s \in Scanners : ScanDir(s)
    \/ \E s \in Scanners : StoreWaitDealFiles(s)
    \/ \E s \in Scanners : Broadcast(s)
    \/ RunReader
    \/ LockWaitDealFiles
    \/ Woken
    \/ OpenWaitDeal
    \/ InnerRunNext
    \/ FanOut
    \/ reportAndSyncMetadata
    \/ switchNextFile
    \/ Tick
    \/ ReaderCtxDone
    \/ Cancel
    \/ HarvesterClose
    \/ CloseDuringNext

Spec == Init /\ [][Next]_vars

\* The steps of Run's reader goroutine up to a switch, and of one scanner.
ReaderSteps ==
    \/ RunReader
    \/ LockWaitDealFiles
    \/ Woken
    \/ OpenWaitDeal
    \/ Tick
    \/ InnerRunNext
    \/ FanOut
    \/ reportAndSyncMetadata

ScannerSteps(s) == ScanDir(s) \/ StoreWaitDealFiles(s) \/ Broadcast(s)

\* Spec under a scheduler that is fair to every goroutine; a select with
\* ctx.Done() ready takes that case sooner or later.
SpecLive ==
    /\ Init
    /\ [][Next]_vars
    /\ WF_vars(ReaderSteps \/ switchNextFile)
    /\ SF_vars(ReaderCtxDone)
    /\ \A s \in Scanners : WF_vars(ScannerSteps(s))

\* ---------------------------------------- the run up to the first switch
\* The harvester from its start until innerRun first calls switchNextFile:
\* bootstrap, adoption of the first file and the delivery of its records,
\* while log files are created, appended to and rotated; the embedder
\* neither cancels nor closes.  The scheduler is fair to every goroutine.
NextBoot ==
    \/ CreateLog
    \/ AppendLog
    \/ Rename
    \/ \E s \in Scanners : ScanDir(s)
    \/ \E s \in Scanners : StoreWaitDealFiles(s)
    \/ \E s \in Scanners : Broadcast(s)
    \/ RunReader
    \/ LockWaitDealFiles
    \/ Woken
    \/ OpenWaitDeal
    \/ Tick
    \/ InnerRunNext
    \/ FanOut
    \/ reportAndSyncMetadata

SpecBoot ==
    /\ Init
    /\ [][NextBoot]_vars
    /\ WF_vars(ReaderSteps)
    /\ \A s \in Scanners : WF_vars(ScannerSteps(s))

\* ------------------------------------------------- NewHarvester / Init
\* The document at cfg.MetaPath before a start: absent, of zero bytes, not
\* JSON, or what reportAndSyncMetadata wrote for some Metadata value.
MissingDoc == [state |-> "missing", doc |-> EmptyMeta]
InvalidDoc == [state |-> "invalid", doc |-> EmptyMeta]

\* json.Valid(data)
Valid(file) == file.state = "json"

\* json.Unmarshal(data, beater.meta): the target is passed by value, not by
\* pointer, and Unmarshal answers InvalidUnmarshalError without storing.
Unmarshal(file, v) == [err |-> "InvalidUnmarshalError", v |-> v]

initReaderFromMetadata(m) ==
    IF m.CurFile # ""
    THEN NewLineReader(m.CurFile, m.CurOffset)
    ELSE [err |-> "nil", r |-> NilReader]

\* Init from its first call of initReaderFromMetadata on.
InitReaderOrReset(m) ==
    LET first == initReaderFromMetadata(m) IN
    IF first.err = "nil"
    THEN [err |-> "nil", meta |-> m, r |-> first.r]
    ELSE IF first.err # "ErrNotExist"
    THEN [err |-> first.err, meta |-> m, r |-> NilReader]
    ELSE LET second == initReaderFromMetadata(EmptyMeta) IN
         [err |-> second.err, meta |-> EmptyMeta, r |-> second.r]

\* harvester.Init on a fresh harvester (meta is Metadata{}): its error, the
\* meta and the reader it leaves.
HarvesterInit(file) ==
    IF file.state = "missing"
    THEN InitReaderOrReset(EmptyMeta)
    ELSE IF ~Valid(file)
    THEN [err |-> "nil", meta |-> EmptyMeta, r |-> NilReader]
    ELSE LET u == Unmarshal(file, EmptyMeta) IN
         IF u.err # "nil"
         THEN [err |-> u.err, meta |-> u.v, r |-> NilReader]
         ELSE InitReaderOrReset(u.v)

\* The Metadata values a run over the watched directory can have saved.
Checkpoints ==
    [CurFile : {""} \cup Names,
     CurFileINode : {""} \cup {String(GetOSState([ino |-> i, dev |-> Device]))
                                 : i \in Inodes},
     CurOffset : 0..MaxFileLen,
     PreFileINode : {""}]

\* The contents the log writer can have left in a file.
LogContents == {SubSeq(LogLine, 1, k) : k \in 0..Len(LogLine)}

\* Before NewHarvester: a.log is absent or present with some content, and
\* cfg.MetaPath holds any of the documents above.
InitStart ==
    /\ \E i \in {0, 1} : dir = [n \in Names |-> IF n = LogName THEN i ELSE 0]
    /\ \E c \in LogContents :
          content = [i \in Inodes |-> IF i = 1 /\ dir[LogName] = 1 THEN c
                                      ELSE <<>>]
    /\ modOrder = IF dir[LogName] = 1 THEN <<1>> ELSE <<>>
    /\ meta = EmptyMeta
    /\ metaFile \in {MissingDoc, EmptyDoc, InvalidDoc}
                      \cup {Marshal(c) : c \in Checkpoints}
    /\ curReader = NilReader
    /\ waitDealFiles = <<>>
    /\ scanPc = [s \in Scanners |-> "scan"]
    /\ scanResult = [s \in Scanners |-> <<>>]
    /\ hvPc = "new"
    /\ waitDeal = NoFile
    /\ msg = <<>>
    /\ err = "nil"
    /\ delivered = <<>>
    /\ retired = {}
    /\ openedAt = 0
    /\ ctxDone = FALSE

\* NewHarvester(cfg): Init's error is returned in place of the harvester;
\* without it the harvester is ready for Run.
NewHarvester ==
    /\ hvPc = "new"
    /\ LET res == HarvesterInit(metaFile) IN
       /\ err' = res.err
       /\ meta' = res.meta
       /\ curReader' = res.r
       /\ openedAt' = res.meta.CurOffset
       /\ hvPc' = IF res.err = "nil" THEN "run" ELSE "init_failed"
    /\ metaFile' = IF metaFile.state = "missing" THEN EmptyDoc ELSE metaFile
    /\ UNCHANGED <<ctxDone, fsVars, waitDealFiles, scanVars, waitDeal, msg,
                   delivered, retired>>

SpecInit == InitStart /\ [][NewHarvester]_vars

\* ------------------------------------------ ignoreAlreadDeal on its own
\* Every order of modification of the inodes.
ModOrders == {f \in [1..MaxInodes -> Inodes] :
                \A j, k \in 1..MaxInodes : f[j] = f[k] => j = k}

\* Any directory (a name is absent or names an inode of its own), any order
\* of modification and any meta.CurFileINode, empty or an identity string.
InitFilter ==
    /\ dir \in {d \in [Names -> {0} \cup Inodes] :
                  \A m, n \in Names : (d[m] = d[n] /\ d[m] # 0) => m = n}
    /\ content = [i \in Inodes |-> <<>>]
    /\ modOrder \in ModOrders
    /\ \E c \in Checkpoints :
          /\ c.CurFile = "" /\ c.CurOffset = 0
          /\ meta = c
    /\ metaFile = EmptyDoc
    /\ curReader = NilReader
    /\ waitDealFiles = <<>>
    /\ scanPc = [s \in Scanners |-> "scan"]
    /\ scanResult = [s \in Scanners |-> <<>>]
    /\ hvPc = "filter"
    /\ waitDeal = NoFile
    /\ msg = <<>>
    /\ err = "nil"
    /\ delivered = <<>>
    /\ retired = {}
    /\ openedAt = 0
    /\ ctxDone = FALSE

\* setWaitDealFiles, once round its loop: result =
\* ignoreAlreadDeal(loadCurFiles()), kept whether it is empty or not.
FilterStep(s) ==
    /\ hvPc = "filter"
    /\ scanPc[s] = "scan"
    /\ scanResult' = [scanResult EXCEPT ![s] = ignoreAlreadDeal(loadCurFiles)]
    /\ scanPc' = [scanPc EXCEPT ![s] = "store"]
    /\ UNCHANGED <<ctxDone, fsVars, meta, metaFile, curReader, waitDealFiles,
                   hvPc, waitDeal, msg, err, histVars>>

SpecFilter == InitFilter /\ [][\E s \in Scanners : FilterStep(s)]_vars

\* ------------------------------------------ the reader on its own
\* A caller of the public reader API, as reader_test.go is: it builds one
\* reader with NewLineReader(LogName, &offset), then calls Next and Close
\* while the file is appended to, renamed, removed and created again.  The
\* caller's offset cell is meta.CurOffset; what Next returns goes to msg
\* and err, the records it yields to delivered.
ReaderFileLen == MaxFileLen + 1

\* Every byte sequence of at most n bytes.
Contents(n) == UNION {[1..k -> ReaderBytes] : k \in 0..n}

\* An offset a caller resumes from: 0, or the byte count of whole lines.
LineEnds(c) == {0} \cup {k \in 1..Len(c) : c[k] = delimLabel}

InitReader ==
    /\ dir = [n \in Names |-> IF n = LogName THEN 1 ELSE 0]
    /\ \E c \in Contents(ReaderFileLen) :
          content = [i \in Inodes |-> IF i = 1 THEN c ELSE <<>>]
    /\ modOrder = <<1>>
    /\ \E k \in LineEnds(content[1]) :
          /\ meta = [EmptyMeta EXCEPT !.CurOffset = k]
          /\ openedAt = k
    /\ metaFile = EmptyDoc
    /\ curReader = NewLineReader(LogName, meta.CurOffset).r
    /\ waitDealFiles = <<>>
    /\ scanPc = [s \in Scanners |-> "done"]
    /\ scanResult = [s \in Scanners |-> <<>>]
    /\ hvPc = "test"
    /\ waitDeal = NoFile
    /\ msg = <<>>
    /\ err = "nil"
    /\ delivered = <<>>
    /\ retired = {}
    /\ ctxDone = FALSE

\* reader.Next()
TestNext ==
    /\ hvPc = "test"
    /\ LET got == LineNext(curReader) IN
       /\ curReader' = got.r
       /\ meta' = [meta EXCEPT !.CurOffset = @ + got.add]
       /\ msg' = got.msg
       /\ err' = got.err
       /\ delivered' = IF got.err = "nil" THEN Append(delivered, got.msg)
                       ELSE delivered
    /\ UNCHANGED <<ctxDone, fsVars, metaFile, waitDealFiles, scanVars, hvPc, waitDeal,
                   retired, openedAt>>

\* reader.Close()
TestClose ==
    /\ hvPc = "test"
    /\ curReader' = Close(curReader)
    /\ UNCHANGED <<ctxDone, fsVars, meta, metaFile, waitDealFiles, scanVars, hvPc,
                   waitDeal, msg, err, histVars>>

\* The writer of the file under the reader appends a byte to it; it holds
\* the file open, so it can whatever the file's names have become.
WriteHeld ==
    \E b \in ReaderBytes :
        /\ hvPc = "test"
        /\ Len(content[curReader.ino]) < ReaderFileLen
        /\ content' = [content EXCEPT ![curReader.ino] = Append(@, b)]
        /\ modOrder' = Touch(curReader.ino)
        /\ UNCHANGED <<ctxDone, dir, meta, metaFile, curReader, waitDealFiles, scanVars,
                       hvPc, waitDeal, msg, err, histVars>>

NextReader ==
    \/ TestNext
    \/ TestClose
    \/ WriteHeld
    \/ CreateLog
    \/ Rename
    \/ \E n \in Names : Remove(n)

SpecReader == InitReader /\ [][NextReader]_vars

\* ------------------------------------------------------ properties
\* The whole lines of c: the bytes between delimiters, delimiters left out.
RECURSIVE SplitLines(_)
SplitLines(c) ==
    LET i == IndexByte(c, delimLabel) IN
    IF i = 0 THEN <<>>
    ELSE <<SubSeq(c, 1, i - 1)>> \o SplitLines(SubSeq(c, i + 1, Len(c)))

\* The records, each followed by the delimiter.
RECURSIVE Joined(_)
Joined(recs) ==
    IF recs = <<>> THEN <<>>
    ELSE Head(recs) \o <<delimLabel>> \o Joined(Tail(recs))

IsPrefix(a, b) == Len(a) <= Len(b) /\ SubSeq(b, 1, Len(a)) = a

Terminated(c) == Len(c) = 0 \/ c[Len(c)] = delimLabel

\* The bytes of the held file after its first k bytes.
After(k) == SubSeq(content[curReader.ino], k + 1, Len(content[curReader.ino]))

\* C3: a reader resumed at an offset k > 0 that ends the delivered lines
\* yields the lines that follow byte k, from the first one on and whole:
\* the newline-terminated records it has yielded are a prefix of the lines
\* after the first k bytes.
C3_ResumeYieldsNextRecord ==
    (hvPc = "test" /\ openedAt > 0 /\ ~curReader.eof)
        => IsPrefix(delivered, SplitLines(After(openedAt)))

\* C5: when a reader opened at offset 0 first answers plain EOF on a file
\* whose content is L1 \n ... Ln \n, the records it has yielded are exactly
\* L1 ... Ln.
C5_DrainYieldsLines ==
    [][(/\ TestNext
        /\ openedAt = 0
        /\ ~curReader.eof
        /\ err' = "EOF"
        /\ Terminated(content[curReader.ino]))
          => delivered' = SplitLines(content[curReader.ino])]_vars

\* C6: Next yields no bytes that lack their terminating newline: whenever it
\* yields a record, the byte it has consumed last is a newline of the file.
C6_PartialLineHeld ==
    [][(TestNext /\ err' = "nil")
          => /\ curReader'.pos \in 1..Len(content[curReader.ino])
             /\ content[curReader.ino][curReader'.pos] = delimLabel]_vars

\* C9: a Next of an open reader that yields no record answers ErrorRemoved
\* when the origin path is gone, else ErrorRemoved when the held file has no
\* link left, else ErrorRename when the path names another (inode, device),
\* else plain EOF; so ErrorRename iff the path exists, the held file is
\* linked and the identities differ, and plain EOF iff they are equal.
C9_EOFClassification ==
    [][(TestNext /\ ~curReader.closed /\ err' # "nil")
          => LET p == dir[curReader.originName]
                 h == curReader.ino
             IN  /\ err' \in {"ErrorRemoved", "ErrorRename", "EOF"}
                 /\ (p = 0 => err' = "ErrorRemoved")
                 /\ (p # 0 /\ Nlink(h) = 0 => err' = "ErrorRemoved")
                 /\ (err' = "ErrorRename"
                        <=> (p # 0 /\ Nlink(h) > 0 /\ <<p, Device>> # <<h, Device>>))
                 /\ (err' = "EOF" <=> (p # 0 /\ <<p, Device>> = <<h, Device>>))]_vars

\* C9 witness: Next has answered ErrorRename, the path names another file
\* and the held one is still linked (under its rotated name).
C9_Witness ==
    /\ hvPc = "test"
    /\ err = "ErrorRename"
    /\ dir[LogName] \notin {0, curReader.ino}
    /\ dir[RotatedName] = curReader.ino

\* C10: once Close has returned, the reader never changes again (a second
\* Close leaves it as it is) and every Next answers ErrorClosed, yields no
\* record and leaves the offset alone.
C10_ClosedAbsorbing ==
    [][(hvPc = "test" /\ ~curReader.fdOpen)
          => /\ curReader' = curReader
             /\ TestNext => /\ err' = "ErrorClosed"
                            /\ msg' = <<>>
                            /\ meta'.CurOffset = meta.CurOffset
                            /\ delivered' = delivered]_vars

\* C10 witness: Next has answered ErrorClosed on a closed reader whose file
\* still holds a whole line it has not consumed.
C10_Witness ==
    /\ hvPc = "test"
    /\ curReader.closed
    /\ err = "ErrorClosed"
    /\ IndexByte(Unread(curReader), delimLabel) > 0

\* The identity string of the file the current reader holds.
HeldINode == String(GetOSState(Stat(curReader.ino)))

\* The harvester has a current file: initReaderFromWait has set meta and the
\* reader loop has not left the file yet.
HasCurFile ==
    hvPc \in {"irw_open", "tick", "next", "fanout", "sync", "switch"}

\* C1: the harvester never makes current a file whose identity it has
\* switched away from before.
C1_NeverReadopts == HasCurFile => meta.CurFileINode \notin retired

\* C2: up to the first switch, the records delivered from the current file,
\* each followed by a newline, are a prefix of the file's content.
C2_DeliveredIsPrefix ==
    (hvPc \in {"tick", "next", "fanout", "sync", "switch"} /\ retired = {})
        => IsPrefix(Joined(delivered), content[curReader.ino])

\* C4: every Next that yields a whole line of the file advances the offset
\* by the record's length plus one, and the document reportAndSyncMetadata
\* writes carries the count of bytes consumed from the current file.
C4_OffsetCountsDelimiters ==
    [][/\ (/\ InnerRunNext
           /\ IndexByte(Unread(curReader), delimLabel) > 0
           /\ err' = "nil")
            => meta'.CurOffset = meta.CurOffset + Len(msg') + 1
       /\ reportAndSyncMetadata
            => metaFile'.doc.CurOffset = curReader.pos]_vars

\* C7: once Next has answered plain EOF and the reader loop waits for its
\* next tick, with the file still under its name, the Next of that tick
\* yields a record whenever the file holds a whole line not yet given.
C7_EOFIsTransient ==
    (/\ hvPc = "next"
     /\ err = "EOF"
     /\ ~curReader.closed
     /\ dir[curReader.originName] = curReader.ino
     /\ IndexByte(Unread(curReader), delimLabel) > 0)
        => LineNext(curReader).err = "nil"

\* C8: a switch away from a renamed or removed file never ends the reader
\* loop, and the file the harvester reads after a switch is the file it has
\* made current, so that no file is passed over under another one's
\* identity.
C8_SwitchKeepsDraining ==
    /\ hvPc # "panic_index"
    /\ (/\ retired # {}
        /\ hvPc \in {"tick", "next", "fanout", "sync"}
        /\ ~curReader.closed)
          => HeldINode = meta.CurFileINode

\* The reader goroutine has not taken its first file yet.
Bootstrapping ==
    retired = {} /\ hvPc \in {"run", "irw_lock", "irw_wait", "irw_woken"}

\* The first record a reader opened at offset 0 gives: the bytes of the file
\* up to its first delimiter (or to where the file ended when it was read).
FirstLine(c) ==
    LET i == IndexByte(c, delimLabel) IN
    IF i = 0 THEN c ELSE SubSeq(c, 1, i - 1)

C11_BootstrapSafe ==
    /\ Bootstrapping
          => /\ delivered = <<>>
             /\ IsNil(curReader)
             /\ meta.CurFile = ""
             /\ metaFile = EmptyDoc
    /\ (hvPc = "irw_wait" /\ Len(waitDealFiles) > 0)
          => \E s \in Scanners : scanPc[s] = "broadcast"
    /\ (retired = {} /\ hvPc = "irw_woken") => Len(waitDealFiles) > 0
    /\ (retired = {} /\ hvPc = "irw_open")
          => /\ meta.CurOffset = 0
             /\ meta.CurFile = waitDeal.name
             /\ meta.CurFileINode = String(GetOSState(waitDeal))
    /\ (retired = {} /\ ~IsNil(curReader))
          => /\ openedAt = 0
             /\ Len(delivered) > 0
                   => IsPrefix(delivered[1], FirstLine(content[curReader.ino]))

RECURSIVE SumLen(_)
SumLen(recs) ==
    IF recs = <<>> THEN 0 ELSE Len(Head(recs)) + SumLen(Tail(recs))

TasksEnded ==
    \/ ~Running
    \/ /\ hvPc = "stopped"
       /\ \A s \in Scanners : scanPc[s] = "done"

\* C13: once the context is cancelled, the refresher, the first scan and the
\* reader goroutine all come to their end.
C13_CancelStopsTasks == ctxDone ~> TasksEnded

\* C14: no interleaving of Run's goroutines with the embedder's calls of
\* Close ends in a panic.
C14_NoPanic == hvPc \notin {"panic_nil", "panic_deref", "panic_index"}

\* C15: the document reportAndSyncMetadata wrote for a Metadata value is
\* loaded by Init as that value, Init succeeds, and a reader of CurFile at
\* CurOffset is stored when CurFile is set and exists.
C15_CheckpointRoundTrip ==
    (hvPc \in {"run", "init_failed"} /\ metaFile.state = "json")
        => /\ hvPc = "run"
           /\ meta = metaFile.doc
           /\ (meta.CurFile # "" /\ dir[meta.CurFile] # 0)
                 => /\ curReader.originName = meta.CurFile
                    /\ openedAt = metaFile.doc.CurOffset

\* C16: Init creates a missing document and starts empty, starts empty on
\* an empty or invalid document, and resets a checkpoint whose CurFile no
\* longer exists; in all three cases without error and without a reader.
C16_InitOutcomes ==
    [][NewHarvester
          => /\ metaFile.state = "missing"
                   => /\ metaFile' = EmptyDoc
                      /\ meta' = EmptyMeta /\ IsNil(curReader') /\ err' = "nil"
             /\ metaFile.state \in {"empty", "invalid"}
                   => meta' = EmptyMeta /\ IsNil(curReader') /\ err' = "nil"
             /\ (/\ metaFile.state = "json"
                 /\ metaFile.doc.CurFile # ""
                 /\ dir[metaFile.doc.CurFile] = 0)
                   => /\ meta' = EmptyMeta /\ IsNil(curReader')
                      /\ err' = "nil" /\ hvPc' = "run"]_vars

\* C17: switchNextFile records the identity of the file it leaves as
\* PreFileINode.
C17_PrevIdentityRecorded ==
    [][switchNextFile => meta'.PreFileINode = meta.CurFileINode]_vars

\* The place of an inode in modOrder: 1 is the latest modification.
ModRank(i) == CHOOSE k \in 1..Len(modOrder) : modOrder[k] = i

\* initReaderFromWait takes an entry of the list in this step.
TakesEntry == hvPc \in {"irw_lock", "irw_woken"} /\ hvPc' = "irw_open"

\* C18: in the bootstrap, with more than one file in the list, the entry
\* taken is the one with the latest modification time.
C18_BootstrapAdoptsNewest ==
    [][(Bootstrapping /\ TakesEntry /\ Len(waitDealFiles) > 1)
          => \A k \in 1..Len(waitDealFiles) :
                ModRank(waitDeal'.ino) <= ModRank(waitDealFiles[k].ino)]_vars

\* C19: the entry initReaderFromWait takes is the last of the list, and the
\* list is without it afterwards.
C19_PopsLast ==
    [][TakesEntry
          => /\ waitDeal' = waitDealFiles[Len(waitDealFiles)]
             /\ waitDealFiles'
                  = SubSeq(waitDealFiles, 1, Len(waitDealFiles) - 1)]_vars

\* The entries of a list, as a set.
Entries(files) == {files[k] : k \in 1..Len(files)}

\* The entries of source modified later than the entry whose identity string
\* is cur; all of source when no entry has that identity.
NewerThan(source, cur) ==
    {e \in Entries(source) :
        \A m \in Entries(source) :
            String(GetOSState(m)) = cur => ModRank(e.ino) < ModRank(m.ino)}

\* C20: what ignoreAlreadDeal returns for the entries of the directory is in
\* descending order of modification time and holds exactly the entries
\* modified later than the one of meta.CurFileINode, all of them when no
\* entry has that identity.
C20_FilterCutsAtCurrent ==
    \A s \in Scanners :
        (hvPc = "filter" /\ scanPc[s] = "store")
            => LET res == scanResult[s] IN
               /\ \A j, k \in 1..Len(res) :
                     j < k => ModRank(res[j].ino) < ModRank(res[k].ino)
               /\ Entries(res) = NewerThan(loadCurFiles, meta.CurFileINode)

\* Two files, the older one current: the result is the newer one alone.
C20_Witness ==
    /\ hvPc = "filter"
    /\ scanPc["once"] = "store"
    /\ Len(loadCurFiles) = 2
    /\ Len(scanResult["once"]) = 1
    /\ meta.CurFileINode # ""

\* C21: whenever initReaderFromWait reads the last element of the list, the
\* list is not empty: the goroutine woken from its wait finds an entry, and
\* no index out of range is reached.
C21_ListNonEmptyAtRead ==
    /\ hvPc = "irw_woken" => Len(waitDealFiles) > 0
    /\ hvPc # "panic_index"

\* NewLineReader fails in this step of a switch (an old reader exists).
SwitchOpenFails ==
    /\ OpenWaitDeal
    /\ ~IsNil(curReader)
    /\ NewLineReader(waitDeal.name, meta.CurOffset).err # "nil"

\* C22: when the open fails inside a switch, the reader stored afterwards
\* is not a closed one and meta still describes the file that reader holds.
C22_FailedSwitchConsistent ==
    [][SwitchOpenFails
          => /\ ~curReader'.closed
             /\ meta'.CurFile = curReader'.originName
             /\ meta'.CurFileINode
                  = String(GetOSState(Stat(curReader'.ino)))]_vars

\* The handles a reader holds open: line.curFile, and one or more that
\* Next has opened to probe the origin path.
HoldsOneHandle(r) == r.fdOpen /\ ~r.probeOpen
HoldsNoHandle(r) == ~r.fdOpen /\ ~r.probeOpen

\* C23: whatever Next has answered so far, the reader holds exactly one open
\* handle until Close, and none after it.
C23_HandlesBounded ==
    hvPc = "test"
        => IF curReader.closed THEN HoldsNoHandle(curReader)
           ELSE HoldsOneHandle(curReader)

====
